---- MODULE Spec2Model ----
(***************************************************************************)
(* Model of the storage-dump analyzers in src/tools/analyzers:             *)
(*   storage.py     StorageAnalyzer    (key-value stores)                  *)
(*   indexeddb.py   IndexedDBAnalyzer  (object stores)                     *)
(*   code_graph.py  CodeGraphAnalyzer  (dependency graph of cached JS)     *)
(*                                                                         *)
(* Text is a sequence of one-character strings, so that prefixes and       *)
(* separators can be inspected.  A Python dict is a function; results that *)
(* do not depend on the insertion order are folded in an arbitrary fixed   *)
(* order.  A float quotient a / b is kept as the exact fraction            *)
(* [num |-> a, den |-> b].                                                  *)
(***************************************************************************)
EXTENDS Integers, Sequences, FiniteSets, TLC

VARIABLES storage, storage_result,
          records, idb_result,
          cg_data, files, imports, cg_result, cg_seen,
          code, code_imports,
          name_url, component,
          cache_data, cache_result,
          analysis, clock, report_file, generated

vars == <<storage, storage_result, records, idb_result,
          cg_data, files, imports, cg_result, cg_seen,
          code, code_imports, name_url, component,
          cache_data, cache_result,
          analysis, clock, report_file, generated>>

storage_vars == <<storage, storage_result>>
idb_vars == <<records, idb_result>>
cg_vars == <<cg_data, files, imports, cg_result, cg_seen>>
text_vars == <<code, code_imports, name_url, component>>
cache_vars == <<cache_data, cache_result>>
report_vars == <<analysis, clock, report_file, generated>>

\* value of a result variable before the analyzer has returned
NoResult == [returned |-> FALSE]

----------------------------------------------------------------------------
(* Bounds of the enumerated inputs *)

MaxKeyLen == 3
MaxPatternKeys == 2
MaxKeys == 3
MaxSize == 2
MaxRecords == 2
MaxEntries == 2
MaxBodyLen == 1
MaxTextLen == 3
MaxStmts == 3
MaxUrlLen == 4
MaxCacheEntries == 3
MaxCalls == 2
MaxClock == 1

----------------------------------------------------------------------------
(* Generic helpers for Python built-ins *)

\* dict[k] += 1 on a defaultdict(int) / Counter
Incr(d, k) ==
    IF k \in DOMAIN d
    THEN [d EXCEPT ![k] = @ + 1]
    ELSE [x \in DOMAIN d \cup {k} |-> IF x = k THEN 1 ELSE d[x]]

\* dict[k] = v
Put(d, k, v) == [x \in DOMAIN d \cup {k} |-> IF x = k THEN v ELSE d[x]]

EmptyDict == [x \in {} |-> 0]

RECURSIVE SumSeq(_)
SumSeq(s) == IF s = <<>> THEN 0 ELSE Head(s) + SumSeq(Tail(s))

RECURSIVE MinSeq(_)
MinSeq(s) ==
    IF Len(s) = 1 THEN s[1]
    ELSE LET m == MinSeq(Tail(s)) IN IF s[1] < m THEN s[1] ELSE m

RECURSIVE MaxSeq(_)
MaxSeq(s) ==
    IF Len(s) = 1 THEN s[1]
    ELSE LET m == MaxSeq(Tail(s)) IN IF s[1] > m THEN s[1] ELSE m

\* insert x into the ascending sequence s
RECURSIVE InsertSorted(_, _)
InsertSorted(x, s) ==
    IF s = <<>> THEN <<x>>
    ELSE IF x <= Head(s) THEN <<x>> \o s
    ELSE <<Head(s)>> \o InsertSorted(x, Tail(s))

\* sorted(s)
RECURSIVE Sorted(_)
Sorted(s) == IF s = <<>> THEN <<>> ELSE InsertSorted(Head(s), Sorted(Tail(s)))

----------------------------------------------------------------------------
(* storage.py : StorageAnalyzer *)

\* the character class [a-zA-Z0-9_] of the prefix regex
WordChars ==
    {"a","b","c","d","e","f","g","h","i","j","k","l","m",
     "n","o","p","q","r","s","t","u","v","w","x","y","z",
     "A","B","C","D","E","F","G","H","I","J","K","L","M",
     "N","O","P","Q","R","S","T","U","V","W","X","Y","Z",
     "0","1","2","3","4","5","6","7","8","9","_"}

\* re.match(r'^([a-zA-Z0-9_]+?)_', key): the non-greedy group is tried with
\* n characters, n = 1, 2, ...; the result is the length of group(1), or 0
\* when there is no match
RECURSIVE MatchPrefixFrom(_, _)
MatchPrefixFrom(key, n) ==
    IF n > Len(key) THEN 0
    ELSE IF key[n] \notin WordChars THEN 0
    ELSE IF n + 1 <= Len(key) /\ key[n + 1] = "_" THEN n
    ELSE MatchPrefixFrom(key, n + 1)

\* the longest group instead of the shortest one
MatchPrefixGreedy(key) ==
    LET ok == {n \in 1..(Len(key) - 1) :
                 /\ key[n + 1] = "_"
                 /\ \A j \in 1..n : key[j] \in WordChars}
    IN IF ok = {} THEN 0 ELSE CHOOSE n \in ok : \A m \in ok : m <= n

MatchPrefix(key) == MatchPrefixFrom(key, 1)

\* the bucket a key is counted under (body of the loop of _extract_patterns)
ExtractKeyPrefixKeyVar(key) ==
    IF MatchPrefix(key) > 0 THEN key \o <<"_", "*">> ELSE key

ExtractKeyPrefix(key) ==
    LET n == MatchPrefix(key) IN
    IF n > 0 THEN SubSeq(key, 1, n) \o <<"_", "*">> ELSE key

\* the loop without its else branch
RECURSIVE ExtractPatternsNoElse(_, _)
ExtractPatternsNoElse(keys, patterns) ==
    IF keys = {} THEN patterns
    ELSE LET key == CHOOSE k \in keys : TRUE IN
         ExtractPatternsNoElse(keys \ {key},
             IF MatchPrefix(key) > 0
             THEN Incr(patterns, ExtractKeyPrefix(key))
             ELSE patterns)

RECURSIVE ExtractPatternsFrom(_, _)
ExtractPatternsFrom(keys, patterns) ==
    IF keys = {} THEN patterns
    ELSE LET key == CHOOSE k \in keys : TRUE IN
         ExtractPatternsFrom(keys \ {key}, Incr(patterns, ExtractKeyPrefix(key)))

\* _extract_patterns(keys)
ExtractPatterns(keys) == ExtractPatternsFrom(keys, EmptyDict)

\* [v.get('size', 0) for v in storage.values() if isinstance(v, dict)]
RECURSIVE SizesFrom(_, _)
SizesFrom(st, keys) ==
    IF keys = {} THEN <<>>
    ELSE LET key == CHOOSE k \in keys : TRUE
             v == st[key]
             rest == SizesFrom(st, keys \ {key})
         IN IF v.isdict
            THEN <<IF v.hasSize THEN v.size ELSE 0>> \o rest
            ELSE rest

Sizes(st) == SizesFrom(st, DOMAIN st)

\* type(parsed).__name__ for a scalar parsed value
TypeName(parsed) ==
    CASE parsed.kind = "null" -> "NoneType"
      [] parsed.kind = "int" -> "int"
      [] parsed.kind = "str" -> "str"
      [] parsed.kind = "bool" -> "bool"
      [] OTHER -> parsed.kind

\* _infer_types(storage)
RECURSIVE InferTypesFrom(_, _, _)
InferTypesFrom(st, keys, types) ==
    IF keys = {} THEN types
    ELSE LET key == CHOOSE k \in keys : TRUE
             v == st[key]
             label ==
                 IF v.parsed.kind \notin {"absent", "null"}
                 THEN IF v.parsed.kind = "list" THEN "JSON_array"
                      ELSE IF v.parsed.kind = "dict" THEN "JSON_object"
                      ELSE TypeName(v.parsed)
                 ELSE "string"
         IN InferTypesFrom(st, keys \ {key},
                           IF v.isdict THEN Incr(types, label) ELSE types)

InferTypes(st) == InferTypesFrom(st, DOMAIN st, EmptyDict)

\* one entry of the map built by StorageAnalyzer._analyze_cardinality
StorageCardinalityEntry(parsed) ==
    IF parsed.kind = "list" THEN [type |-> "array", cardinality |-> parsed.len]
    ELSE IF parsed.kind = "dict" THEN [type |-> "object", cardinality |-> parsed.len]
    ELSE [type |-> TypeName(parsed), unique_values |-> 1]

\* StorageAnalyzer._analyze_cardinality(storage)
StorageCardinality(st) ==
    LET carrying == {k \in DOMAIN st : st[k].isdict /\ st[k].parsed.kind # "absent"}
    IN [k \in carrying |-> StorageCardinalityEntry(st[k].parsed)]

\* the lower middle element, index (len(sizes) - 1)//2
MedianLower(sizes) == Sorted(sizes)[((Len(sizes) - 1) \div 2) + 1]

\* sorted(sizes)[len(sizes)//2]; sequences are 1-based here
Median(sizes) == Sorted(sizes)[(Len(sizes) \div 2) + 1]

\* sum(sizes) / len(sizes) if sizes else 0
AvgValueSize(sizes) ==
    IF sizes # <<>> THEN [num |-> SumSeq(sizes), den |-> Len(sizes)]
    ELSE [num |-> 0, den |-> 1]

\* _analyze_storage(storage)
AnalyzeStorageResult(st) ==
    LET keys == DOMAIN st
        key_patterns == ExtractPatterns(keys)
        sizes == Sizes(st)
        types == InferTypes(st)
        cardinality == StorageCardinality(st)
    IN [returned |-> TRUE,
        total_keys |-> Cardinality(keys),
        total_size_bytes |-> SumSeq(sizes),
        avg_value_size |-> AvgValueSize(sizes),
        key_patterns |-> key_patterns,
        value_sizes_bytes |->
            [min |-> IF sizes # <<>> THEN MinSeq(sizes) ELSE 0,
             max |-> IF sizes # <<>> THEN MaxSeq(sizes) ELSE 0,
             median |-> IF sizes # <<>> THEN Median(sizes) ELSE 0],
        data_types |-> types,
        cardinality |-> cardinality]

(* inputs *)

KeyAlphabet == {"u", "_", "*"}

AllKeys == UNION {[1..n -> KeyAlphabet] : n \in 0..MaxKeyLen}

user_1 == <<"u","s","e","r","_","1">>
user_2 == <<"u","s","e","r","_","2">>
theme == <<"t","h","e","m","e">>

PoolKeys == {user_1, user_2, theme, <<"_", "*">>}

RECURSIVE KeySets(_, _)
KeySets(pool, n) ==
    IF n = 0 THEN {{}}
    ELSE LET smaller == KeySets(pool, n - 1)
         IN smaller \cup {K \cup {k} : K \in smaller, k \in pool}

AbsentParsed == [kind |-> "absent", len |-> 0]

\* a value that is not a dict (skipped by the isinstance checks)
RawValue == [isdict |-> FALSE, hasSize |-> FALSE, size |-> 0, parsed |-> AbsentParsed]

DefaultValue == [isdict |-> TRUE, hasSize |-> TRUE, size |-> 1, parsed |-> AbsentParsed]

ParsedValues ==
    {[kind |-> "null", len |-> 0], [kind |-> "int", len |-> 0],
     [kind |-> "list", len |-> 2], [kind |-> "dict", len |-> 1]}

StoredValues ==
    {RawValue}
    \cup {[isdict |-> TRUE, hasSize |-> FALSE, size |-> 0, parsed |-> AbsentParsed]}
    \cup {[isdict |-> TRUE, hasSize |-> TRUE, size |-> s, parsed |-> AbsentParsed] :
            s \in 0..MaxSize}
    \cup {[isdict |-> TRUE, hasSize |-> TRUE, size |-> 1, parsed |-> p] :
            p \in ParsedValues}

\* stores with arbitrary short keys, and stores with arbitrary values
PatternStores == {[k \in K |-> DefaultValue] : K \in KeySets(AllKeys, MaxPatternKeys)}

ValueStores == UNION {[K -> StoredValues] : K \in KeySets(PoolKeys, MaxKeys)}

InitStorage ==
    /\ storage \in PatternStores \cup ValueStores
    /\ storage_result = NoResult

AnalyzeStorage ==
    /\ ~ storage_result.returned
    /\ storage_result' = AnalyzeStorageResult(storage)
    /\ UNCHANGED storage

----------------------------------------------------------------------------
(* indexeddb.py : IndexedDBAnalyzer *)

\* decoded scalars: t is type(value).__name__, v the text of the value
Null == [t |-> "NoneType", v |-> "None"]
True == [t |-> "bool", v |-> "True"]
Int1 == [t |-> "int", v |-> "1"]
Str1 == [t |-> "str", v |-> "1"]
Float15 == [t |-> "float", v |-> "1.5"]
List1 == [t |-> "list", v |-> "[1]"]
Dict1 == [t |-> "dict", v |-> "{'a': 1}"]

\* str(value) of a scalar: the text without quotes, so 1 and '1' agree
StrOf(value) == value.v

\* repr(value) of a scalar, as used inside str(dict): strings are quoted
ReprOf(value) == IF value.t = "str" THEN "'" \o value.v \o "'" ELSE value.v

\* str(dict): the items in insertion order
RECURSIVE StrOfItems(_)
StrOfItems(items) ==
    IF items = <<>> THEN ""
    ELSE "'" \o Head(items).k \o "': " \o ReprOf(Head(items).v)
         \o (IF Len(items) > 1 THEN ", " ELSE "") \o StrOfItems(Tail(items))

\* str(record)
StrOfRecord(r) ==
    IF r.isdict THEN "{" \o StrOfItems(r.items) \o "}" ELSE StrOf(r.val)

\* key in r
HasKey(r, key) == \E i \in 1..Len(r.items) : r.items[i].k = key

\* r.get(key), for a record that has the key
GetKey(r, key) == r.items[CHOOSE i \in 1..Len(r.items) : r.items[i].k = key].v

\* first.keys()
KeysOf(r) == {r.items[i].k : i \in 1..Len(r.items)}

IsDictRecord(r) == r.isdict

\* [r for r in records if isinstance(r, dict)]
DictRecords(recs) == SelectSeq(recs, IsDictRecord)

\* the if/elif chain of _infer_schema
FieldType(value) ==
    IF value.t = "NoneType" THEN "null"
    ELSE IF value.t = "bool" THEN "boolean"
    ELSE IF value.t = "int" THEN "number"
    ELSE IF value.t = "str" THEN "string"
    ELSE IF value.t = "list" THEN "array"
    ELSE IF value.t = "dict" THEN "object"
    ELSE value.t

\* a / b rounded to an integer, ties to even: the '.0f' format
RoundHalfEven(a, b) ==
    LET q == a \div b
        r == a % b
    IN IF 2 * r < b THEN q
       ELSE IF 2 * r > b THEN q + 1
       ELSE IF q % 2 = 0 THEN q ELSE q + 1

\* f"{presence:.0f}%" for presence = count / total * 100
PercentString(count, total) == ToString(RoundHalfEven(100 * count, total)) \o "%"

\* number of records of recs that have the key
CountWithKey(recs, key) == Cardinality({i \in 1..Len(recs) : HasKey(recs[i], key)})

\* presence with all records in the denominator
PresenceOfAllRecords(recs, key) ==
    IF recs = <<>> THEN "0%"
    ELSE PercentString(CountWithKey(DictRecords(recs), key), Len(recs))

\* the presence string of a field: the denominator is len(dict_records)
PresenceOf(recs, key) ==
    LET dict_records == DictRecords(recs)
    IN IF dict_records = <<>> THEN "0%"
       ELSE PercentString(CountWithKey(dict_records, key), Len(dict_records))

\* the records of recs that carry the key, in order
RECURSIVE Carrying(_, _)
Carrying(recs, key) ==
    IF recs = <<>> THEN <<>>
    ELSE IF HasKey(Head(recs), key)
         THEN <<Head(recs)>> \o Carrying(Tail(recs), key)
         ELSE Carrying(Tail(recs), key)

\* [len(str(r.get(key, ''))) for r in dict_records if key in r]
FieldLengths(recs, key) ==
    LET c == Carrying(DictRecords(recs), key)
    IN [i \in 1..Len(c) |-> Len(StrOf(GetKey(c[i], key)))]

\* schema[key] for a field of the first record
SchemaEntry(recs, key) ==
    LET field_type == FieldType(GetKey(recs[1], key))
        lengths == FieldLengths(recs, key)
    IN IF field_type = "string" /\ lengths # <<>>
       THEN [type |-> field_type,
             presence |-> PresenceOf(recs, key),
             max_length |-> MaxSeq(lengths),
             avg_length |-> [num |-> SumSeq(lengths), den |-> Len(lengths)]]
       ELSE [type |-> field_type, presence |-> PresenceOf(recs, key)]

\* _infer_schema(records)
InferSchema(recs) ==
    IF recs = <<>> THEN EmptyDict
    ELSE IF ~ recs[1].isdict
    THEN [x \in {"_primitive"} |->
            [type |-> recs[1].val.t,
             note |-> "Records are primitive values, not objects"]]
    ELSE [key \in KeysOf(recs[1]) |-> SchemaEntry(recs, key)]

\* the count of distinct renderings over the primitive records only
UniquePrimitiveRecords(recs) ==
    Cardinality({StrOfRecord(recs[i]) : i \in {j \in 1..Len(recs) : ~ recs[j].isdict}})

\* len(set(str(v) for v in records))
UniqueRecords(recs) == Cardinality({StrOfRecord(recs[i]) : i \in 1..Len(recs)})

\* result[key] with the ratio taken over all records
FieldCardinalityOverRecords(recs, key) ==
    LET values == Carrying(DictRecords(recs), key)
        unique == Cardinality({StrOf(GetKey(values[i], key)) : i \in 1..Len(values)})
    IN [unique_values |-> unique,
        cardinality_ratio |-> [num |-> unique, den |-> Len(recs)]]

\* result[key] for a field of the first record that some dict record carries
FieldCardinality(recs, key) ==
    LET values == Carrying(DictRecords(recs), key)
        unique == Cardinality({StrOf(GetKey(values[i], key)) : i \in 1..Len(values)})
    IN [unique_values |-> unique,
        cardinality_ratio |-> [num |-> unique, den |-> Len(values)]]

\* IndexedDBAnalyzer._analyze_cardinality(records)
AnalyzeCardinality(recs) ==
    IF recs = <<>> THEN EmptyDict
    ELSE IF ~ recs[1].isdict
    THEN [x \in {"_primitive"} |->
            [unique_values |-> UniqueRecords(recs),
             cardinality_ratio |-> [num |-> UniqueRecords(recs), den |-> Len(recs)]]]
    ELSE IF DictRecords(recs) = <<>> THEN EmptyDict
    ELSE LET reported == {key \in KeysOf(recs[1]) :
                            Carrying(DictRecords(recs), key) # <<>>}
         IN [key \in reported |-> FieldCardinality(recs, key)]

(* inputs *)

Scalars == {Null, True, Int1, Str1}

Fields == {"f", "g"}

\* the items of an object: distinct field names, in insertion order
ItemSeqs ==
    {<<>>}
    \cup {<<[k |-> a, v |-> x]>> : a \in Fields, x \in Scalars}
    \cup {it \in {<<[k |-> a, v |-> x], [k |-> b, v |-> y]>> :
                      a \in Fields, b \in Fields, x \in Scalars, y \in Scalars} :
            it[1].k # it[2].k}

RecordValues ==
    {[isdict |-> FALSE, val |-> x, items |-> <<>>] : x \in Scalars}
    \cup {[isdict |-> TRUE, val |-> Null, items |-> it] : it \in ItemSeqs}

RecordSeqs == UNION {[1..n -> RecordValues] : n \in 0..MaxRecords}

\* the decoded values that are not scalars of the stores above
OtherValues == {Float15, List1, Dict1}

\* stores of one object whose field holds a fractional number, an array or
\* an object
OtherValueStores ==
    {<<[isdict |-> TRUE, val |-> Null, items |-> <<[k |-> "f", v |-> x]>>]>> :
        x \in OtherValues}

InitIDB ==
    /\ records \in RecordSeqs \cup OtherValueStores
    /\ idb_result = NoResult

\* the schema and cardinality that analyze() stores for one object store
AnalyzeStore ==
    /\ ~ idb_result.returned
    /\ idb_result' = [returned |-> TRUE,
                      record_count |-> Len(records),
                      schema |-> InferSchema(records),
                      cardinality |-> AnalyzeCardinality(records)]
    /\ UNCHANGED records

----------------------------------------------------------------------------
(* code_graph.py : CodeGraphAnalyzer *)
(* A script body is a sequence of tokens: a call token stands for a match   *)
(* of the import(...)/require(...) pattern, a from token for a match of the *)
(* from '...' pattern, a text token for text that matches neither.          *)

\* content_type.lower() on the content types of the model
LowerCT(ct) == IF ct = "Text/JavaScript" THEN "text/javascript" ELSE ct

\* _is_javascript(entry): 'javascript' in content_type
IsJavascript(entry) == LowerCT(entry.contentType) \in {"text/javascript"}

\* first loop of _extract_imports, then the second one
CallImports(body) == {body[i].lit : i \in {j \in 1..Len(body) : body[j].kind = "call"}}

FromImports(body) == {body[i].lit : i \in {j \in 1..Len(body) : body[j].kind = "from"}}

\* _extract_imports(code)
ExtractImports(body) == CallImports(body) \cup FromImports(body)

\* s.split(c)[-1]
RECURSIVE AfterLast(_, _)
AfterLast(s, c) ==
    IF \A i \in 1..Len(s) : s[i] # c THEN s
    ELSE AfterLast(Tail(s), c)

\* s.split(c)[0]
RECURSIVE BeforeFirst(_, _)
BeforeFirst(s, c) ==
    IF s = <<>> \/ Head(s) = c THEN <<>>
    ELSE <<Head(s)>> \o BeforeFirst(Tail(s), c)

\* _get_component_name(url)
ComponentName(url) ==
    LET filename == BeforeFirst(AfterLast(url, "/"), "?")
    IN IF \E i \in 1..Len(filename) : filename[i] = "-"
       THEN BeforeFirst(filename, "-")
       ELSE filename

\* response.get('bodySize', 0)
BodySize(entry) == IF entry.hasBodySize THEN entry.bodySize ELSE 0

\* an entry that passes both 'continue' checks of the loop
IsScript(entry) == IsJavascript(entry) /\ entry.body # <<>>

\* the loop body with the import set merged into the stored one
ProcessEntryMerging(acc, entry) ==
    IF ~ IsScript(entry) THEN acc
    ELSE LET file_key == ComponentName(entry.url)
             old == IF file_key \in DOMAIN acc.imports
                    THEN acc.imports[file_key] ELSE {}
             merged == old \cup ExtractImports(entry.body)
         IN [files |-> Put(acc.files, file_key,
                           [url |-> entry.url, size |-> BodySize(entry),
                            imports |-> merged]),
             imports |-> Put(acc.imports, file_key, merged)]

\* the body of the inner loop of analyze(); acc holds self.files and
\* self.imports
ProcessEntry(acc, entry) ==
    IF ~ IsScript(entry) THEN acc
    ELSE LET imps == ExtractImports(entry.body)
             file_key == ComponentName(entry.url)
         IN [files |-> Put(acc.files, file_key,
                           [url |-> entry.url, size |-> BodySize(entry),
                            imports |-> imps]),
             imports |-> Put(acc.imports, file_key, imps)]

\* for entry in cache.get('entries', [])
RECURSIVE ProcessEntries(_, _)
ProcessEntries(acc, entries) ==
    IF entries = <<>> THEN acc
    ELSE ProcessEntries(ProcessEntry(acc, Head(entries)), Tail(entries))

\* for cache in self.data.get('caches', [])
RECURSIVE ProcessCaches(_, _)
ProcessCaches(acc, caches) ==
    IF caches = <<>> THEN acc
    ELSE ProcessCaches(ProcessEntries(acc, Head(caches)), Tail(caches))

\* number of distinct imported identifiers of the whole graph
TotalDependenciesDistinct(imps) == Cardinality(UNION {imps[k] : k \in DOMAIN imps})

\* sum(len(deps) for deps in self.imports.values())
RECURSIVE SumOfImportSizes(_, _)
SumOfImportSizes(imps, keys) ==
    IF keys = {} THEN 0
    ELSE LET k == CHOOSE x \in keys : TRUE
         IN Cardinality(imps[k]) + SumOfImportSizes(imps, keys \ {k})

TotalDependencies(imps) == SumOfImportSizes(imps, DOMAIN imps)

(* inputs *)

Literals == {"x", "y"}

Tokens ==
    {[kind |-> "call", lit |-> "x"],
     [kind |-> "from", lit |-> "y"], [kind |-> "text", lit |-> ""]}

Bodies == UNION {[1..n -> Tokens] : n \in 0..MaxBodyLen}

\* app-1, app-2 and lib, shortened
Urls == {<<"a", "-", "1">>, <<"a", "-", "2">>, <<"b">>}

ContentTypes == {"Text/JavaScript", "text/html"}

Entries ==
    {[url |-> u, contentType |-> ct, body |-> b, hasBodySize |-> hs, bodySize |-> 1] :
        u \in Urls, ct \in ContentTypes, b \in Bodies, hs \in BOOLEAN}

\* the entries in one cache, or cut into two caches
CachesOf(entries) ==
    {<<entries>>}
    \cup {<<SubSeq(entries, 1, i), SubSeq(entries, i + 1, Len(entries))>> :
            i \in 1..(Len(entries) - 1)}

\* CodeGraphAnalyzer.__init__
InitCG ==
    /\ \/ cg_data = <<>>
       \/ \E n \in 0..MaxEntries : \E es \in [1..n -> Entries] : cg_data \in CachesOf(es)
    /\ files = EmptyDict
    /\ imports = EmptyDict
    /\ cg_result = NoResult
    /\ cg_seen = <<>>

\* CodeGraphAnalyzer.analyze(); it may be called again on the same instance.
\* cg_seen is the document as this call iterates over it
AnalyzeCodeGraph ==
    LET acc == ProcessCaches([files |-> files, imports |-> imports], cg_data)
    IN /\ files' = acc.files
       /\ imports' = acc.imports
       /\ cg_result' =
            [returned |-> TRUE,
             components |-> acc.files,
             graph |-> acc.imports,
             stats |-> [total_components |-> Cardinality(DOMAIN acc.files),
                        total_dependencies |-> TotalDependencies(acc.imports)]]
       /\ cg_seen' = cg_data
       /\ UNCHANGED cg_data

(* one analyzer instance used for several calls *)

\* the entries that analyze() turns into components
ScriptEntries == {e \in Entries : IsScript(e) /\ e.hasBodySize}

\* CodeGraphAnalyzer.__init__ on a document of one cache of script entries
InitCGReuse ==
    /\ \E n \in 1..MaxEntries : \E es \in [1..n -> ScriptEntries] : cg_data = <<es>>
    /\ files = EmptyDict
    /\ imports = EmptyDict
    /\ cg_result = NoResult
    /\ cg_seen = <<>>

\* self.data is the caller's mapping itself, not a copy: between two calls
\* the caller removes the last entry of the last cache
DropEntry ==
    /\ cg_data # <<>>
    /\ cg_data[Len(cg_data)] # <<>>
    /\ cg_data' = [cg_data EXCEPT ![Len(cg_data)] = SubSeq(@, 1, Len(@) - 1)]
    /\ UNCHANGED <<files, imports, cg_result, cg_seen>>

----------------------------------------------------------------------------
(* code_graph.py : _extract_imports on script text *)
(* Script text is a sequence of lexemes: the keywords with their opening   *)
(* parenthesis, the keyword from, a blank, the two quotes, letters, the    *)
(* closing parenthesis and the semicolon.                                   *)

Quotes == {"'", "\""}

CallOpeners == {"import(", "require("}

\* index of the first lexeme of text at or after i that satisfies the
\* test, Len(text) + 1 when there is none
RECURSIVE FirstQuoteFrom(_, _)
FirstQuoteFrom(text, i) ==
    IF i > Len(text) THEN Len(text) + 1
    ELSE IF text[i] \in Quotes THEN i
    ELSE FirstQuoteFrom(text, i + 1)

RECURSIVE FirstNonBlankFrom(_, _)
FirstNonBlankFrom(text, i) ==
    IF i > Len(text) THEN Len(text) + 1
    ELSE IF text[i] # " " THEN i
    ELSE FirstNonBlankFrom(text, i + 1)

NoMatch == [end |-> 0, group |-> <<>>]

\* (?:import|require)\(['"]([^'"]+)['"]\) matched at position i: the group
\* is the run up to the next quote, which a closing parenthesis must follow
MatchCallAt(text, i) ==
    IF /\ i + 1 <= Len(text)
       /\ text[i] \in CallOpeners
       /\ text[i + 1] \in Quotes
    THEN LET q == FirstQuoteFrom(text, i + 2)
         IN IF q > i + 2 /\ q + 1 <= Len(text) /\ text[q + 1] = ")"
            THEN [end |-> q + 1, group |-> SubSeq(text, i + 2, q - 1)]
            ELSE NoMatch
    ELSE NoMatch

\* from\s+['"]([^'"]+)['"] matched at position i
MatchFromAt(text, i) ==
    IF i <= Len(text) /\ text[i] = "from"
    THEN LET w == FirstNonBlankFrom(text, i + 1)
         IN IF w > i + 1 /\ w <= Len(text) /\ text[w] \in Quotes
            THEN LET q == FirstQuoteFrom(text, w + 1)
                 IN IF q > w + 1 /\ q <= Len(text)
                    THEN [end |-> q, group |-> SubSeq(text, w + 1, q - 1)]
                    ELSE NoMatch
            ELSE NoMatch
    ELSE NoMatch

MatchAt(kind, text, i) ==
    IF kind = "call" THEN MatchCallAt(text, i) ELSE MatchFromAt(text, i)

\* only the first match, as re.search would give
RECURSIVE FindFirst(_, _, _)
FindFirst(kind, text, pos) ==
    IF pos > Len(text) THEN <<>>
    ELSE LET m == MatchAt(kind, text, pos)
         IN IF m.end > 0 THEN <<m.group>> ELSE FindFirst(kind, text, pos + 1)

\* re.finditer: group(1) of the non-overlapping matches, left to right
RECURSIVE FindIter(_, _, _)
FindIter(kind, text, pos) ==
    IF pos > Len(text) THEN <<>>
    ELSE LET m == MatchAt(kind, text, pos)
         IN IF m.end > 0
            THEN <<m.group>> \o FindIter(kind, text, m.end + 1)
            ELSE FindIter(kind, text, pos + 1)

\* imports.add(match.group(1)) for every match of a loop
RECURSIVE AddAll(_, _)
AddAll(set, groups) ==
    IF groups = <<>> THEN set ELSE AddAll(set \cup {Head(groups)}, Tail(groups))

\* _extract_imports(code) on text
ExtractImportsOfText(text) ==
    AddAll(AddAll({}, FindIter("call", text, 1)), FindIter("from", text, 1))

(* inputs *)

Lexemes == {"import(", "require(", "from", " ", "'", "\"", "a", "b", ")", ";"}

ShortTexts == UNION {[1..n -> Lexemes] : n \in 0..MaxTextLen}

\* import("a")   require('a')   from 'b'   import("b')   from'b'
StmtImportA == <<"import(", "\"", "a", "\"", ")">>
StmtRequireA == <<"require(", "'", "a", "'", ")">>
StmtFromB == <<"from", " ", "'", "b", "'">>
StmtImportBMixed == <<"import(", "\"", "b", "'", ")">>
StmtFromNoBlank == <<"from", "'", "b", "'">>

Statements == {StmtImportA, StmtRequireA, StmtFromB, StmtImportBMixed, StmtFromNoBlank}

\* the statements, each followed by a semicolon
RECURSIVE JoinStatements(_)
JoinStatements(stmts) ==
    IF stmts = <<>> THEN <<>>
    ELSE Head(stmts) \o <<";">> \o JoinStatements(Tail(stmts))

InitImports ==
    /\ \/ code \in ShortTexts
       \/ \E n \in 1..MaxStmts : \E stmts \in [1..n -> Statements] :
            code = JoinStatements(stmts)
    /\ code_imports = NoResult
    /\ name_url = <<>>
    /\ component = NoResult

\* one call of _extract_imports
ScanImports ==
    /\ ~ code_imports.returned
    /\ code_imports' = [returned |-> TRUE,
                        imports |-> ExtractImportsOfText(code),
                        size |-> Cardinality(ExtractImportsOfText(code))]
    /\ UNCHANGED <<code, name_url, component>>

----------------------------------------------------------------------------
(* code_graph.py : _get_component_name on arbitrary URLs *)

UrlAlphabet == {"a", "b", "-", "/", "?"}

InitName ==
    /\ name_url \in UNION {[1..n -> UrlAlphabet] : n \in 0..MaxUrlLen}
    /\ component = NoResult
    /\ code = <<>>
    /\ code_imports = NoResult

\* one call of _get_component_name
DeriveName ==
    /\ ~ component.returned
    /\ component' = [returned |-> TRUE, name |-> ComponentName(name_url)]
    /\ UNCHANGED <<name_url, code, code_imports>>

----------------------------------------------------------------------------
(* caches.py : CacheAnalyzer *)

\* a missing content type read with the default ''
ContentTypeOrEmpty(entry) == IF entry.hasContentType THEN entry.contentType ELSE ""

\* response.get('contentType', 'unknown')
ContentTypeOf(entry) == IF entry.hasContentType THEN entry.contentType ELSE "unknown"

\* the body of the inner loop of CacheAnalyzer.analyze
CountEntry(acc, entry) ==
    [content_types |-> Incr(acc.content_types, ContentTypeOf(entry)),
     total_size |-> acc.total_size + BodySize(entry)]

\* for entry in cache.get('entries', [])
RECURSIVE CountEntries(_, _)
CountEntries(acc, entries) ==
    IF entries = <<>> THEN acc
    ELSE CountEntries(CountEntry(acc, Head(entries)), Tail(entries))

\* for cache in self.data.get('caches', [])
RECURSIVE CountCaches(_, _)
CountCaches(acc, caches) ==
    IF caches = <<>> THEN acc
    ELSE CountCaches(CountEntries(acc, Head(caches)), Tail(caches))

(* inputs *)

CacheEntries ==
    {[hasContentType |-> FALSE, contentType |-> "", hasBodySize |-> hs, bodySize |-> b] :
        hs \in BOOLEAN, b \in {1}}
    \cup {[hasContentType |-> TRUE, contentType |-> ct, hasBodySize |-> hs, bodySize |-> b] :
            ct \in {"text/html", "Text/HTML", "unknown"}, hs \in BOOLEAN, b \in {1}}
    \cup {[hasContentType |-> TRUE, contentType |-> "text/html",
           hasBodySize |-> TRUE, bodySize |-> 2]}

\* CacheAnalyzer.__init__
InitCache ==
    /\ \/ cache_data = <<>>
       \/ \E n \in 0..MaxCacheEntries : \E es \in [1..n -> CacheEntries] :
            cache_data \in CachesOf(es)
    /\ cache_result = NoResult

\* CacheAnalyzer.analyze()
AnalyzeCaches ==
    LET acc == CountCaches([content_types |-> EmptyDict, total_size |-> 0], cache_data)
    IN /\ ~ cache_result.returned
       /\ cache_result' = [returned |-> TRUE,
                           content_types |-> acc.content_types,
                           total_cached_size |-> acc.total_size]
       /\ UNCHANGED cache_data

----------------------------------------------------------------------------
(* reporter.py : ReportGenerator *)
(* The report text is kept as a record of its rendered fields; a dict that *)
(* is rendered line by line is kept as the map of its lines.               *)

\* d.get(k, default)
Get(d, k, default) == IF k \in DOMAIN d THEN d[k] ELSE default

Zero == [num |-> 0, den |-> 1]

\* f"{x / 1024:.2f}" and f"{x / 1024 / 1024:.2f}", in hundredths
KBHundredths(x) == RoundHalfEven(100 * x, 1024)

MBHundredths(x) == RoundHalfEven(100 * x, 1024 * 1024)

\* f"{ratio * 100:.0f}" of a fraction
PercentOf(ratio) == RoundHalfEven(100 * ratio.num, ratio.den)

\* the sum of store_info.get('record_count', 0) over the stores of a database
RECURSIVE SumRecordCounts(_, _)
SumRecordCounts(stores, names) ==
    IF names = {} THEN 0
    ELSE LET n == CHOOSE x \in names : TRUE
         IN Get(stores[n], "record_count", 0) + SumRecordCounts(stores, names \ {n})

\* total_records over all databases
RECURSIVE TotalRecords(_, _)
TotalRecords(idb, names) ==
    IF names = {} THEN 0
    ELSE LET n == CHOOSE x \in names : TRUE
             stores == Get(idb[n], "stores", EmptyDict)
         IN SumRecordCounts(stores, DOMAIN stores) + TotalRecords(idb, names \ {n})

\* the lines of one store
StoreLines(store_info) ==
    LET schema == Get(store_info, "schema", EmptyDict)
        cardinality == Get(store_info, "cardinality", EmptyDict)
    IN [records |-> Get(store_info, "record_count", 0),
        key_path |-> Get(store_info, "key_path", "N/A"),
        schema |-> [f \in DOMAIN schema |->
                      [type |-> Get(schema[f], "type", "unknown"),
                       presence |-> Get(schema[f], "presence", "?")]],
        cardinality |-> [f \in DOMAIN cardinality |->
                           [unique |-> Get(cardinality[f], "unique_values", 0),
                            ratio |-> PercentOf(Get(cardinality[f], "cardinality_ratio", Zero))]]]

\* the lines of one database
DatabaseLines(db_info) ==
    LET stores == Get(db_info, "stores", EmptyDict)
    IN [version |-> Get(db_info, "version", "?"),
        stores |-> [st \in DOMAIN stores |-> StoreLines(stores[st])]]

\* the code section is written whenever code_graph is not empty
CodeSectionIfPresent(code_graph) == code_graph # EmptyDict

\* if code.get('stats')
CodeSection(code_graph) == Get(code_graph, "stats", EmptyDict) # EmptyDict

\* the text of the report, or the KeyError of code['stats']
ReportText(an, timestamp) ==
    LET storage_section == Get(an, "storage", EmptyDict)
        ls == Get(storage_section, "localStorage", EmptyDict)
        ss == Get(storage_section, "sessionStorage", EmptyDict)
        idb == Get(an, "indexeddb", EmptyDict)
        code_graph == Get(an, "code_graph", EmptyDict)
        sizes == Get(ls, "value_sizes_bytes", EmptyDict)
    IN IF CodeSection(code_graph) /\ "stats" \notin DOMAIN code_graph
       THEN [raised |-> TRUE]
       ELSE [raised |-> FALSE,
             generated |-> ToString(timestamp),
             local_keys |-> Get(ls, "total_keys", 0),
             local_mb |-> MBHundredths(Get(ls, "total_size_bytes", 0)),
             session_keys |-> Get(ss, "total_keys", 0),
             session_mb |-> MBHundredths(Get(ss, "total_size_bytes", 0)),
             databases |-> Cardinality(DOMAIN idb),
             total_records |-> TotalRecords(idb, DOMAIN idb),
             key_patterns |-> Get(ls, "key_patterns", EmptyDict),
             min |-> Get(sizes, "min", 0),
             max_kb |-> KBHundredths(Get(sizes, "max", 0)),
             median_kb |-> KBHundredths(Get(sizes, "median", 0)),
             avg_kb |-> RoundHalfEven(100 * Get(ls, "avg_value_size", Zero).num,
                                      1024 * Get(ls, "avg_value_size", Zero).den),
             data_types |-> Get(ls, "data_types", EmptyDict),
             stores |-> [db \in DOMAIN idb |-> DatabaseLines(idb[db])],
             code |-> IF CodeSection(code_graph)
                      THEN [components |-> Get(code_graph["stats"], "total_components", 0),
                            dependencies |-> Get(code_graph["stats"], "total_dependencies", 0)]
                      ELSE EmptyDict,
             report_generated |-> ToString(timestamp)]

\* a file opened with 'a'
AppendFile(old, text) == old \o <<text>>

\* with open(output, 'w') as f: f.write(report)
WriteFile(old, text) == <<text>>

(* inputs *)

\* no entry, or the entry k with one of the values
Optional(k, values) == {EmptyDict} \cup {[x \in {k} |-> v] : v \in values}

SampleStore ==
    [k \in {user_1, theme} |->
        [isdict |-> TRUE, hasSize |-> TRUE, size |-> IF k = theme THEN 2 ELSE 1,
         parsed |-> AbsentParsed]]

SampleRecords ==
    <<[isdict |-> TRUE, val |-> Null, items |-> <<[k |-> "f", v |-> Str1]>>],
      [isdict |-> TRUE, val |-> Null, items |-> <<>>]>>

LocalStorageResults == {EmptyDict, [total_keys |-> 2], AnalyzeStorageResult(SampleStore)}

StorageSections ==
    {a @@ b : a \in Optional("localStorage", LocalStorageResults),
              b \in Optional("sessionStorage", {[total_keys |-> 1, total_size_bytes |-> 1048576]})}

StoreSummaries ==
    {EmptyDict,
     [record_count |-> 2],
     [schema |-> [f \in {"f"} |-> EmptyDict], cardinality |-> [f \in {"f"} |-> EmptyDict]],
     [record_count |-> 2, key_path |-> "id",
      schema |-> InferSchema(SampleRecords),
      cardinality |-> AnalyzeCardinality(SampleRecords)]}

DatabaseResults ==
    {a @@ b : a \in Optional("version", {1}),
              b \in Optional("stores", {EmptyDict} \cup {[x \in {"s1"} |-> st] : st \in StoreSummaries})}

CodeGraphResults ==
    {EmptyDict,
     [components |-> EmptyDict],
     [stats |-> EmptyDict],
     [stats |-> [total_components |-> 1]],
     [stats |-> [total_components |-> 2, total_dependencies |-> 3]]}

Analyses ==
    {a @@ b @@ c @@ d :
        a \in Optional("storage", StorageSections),
        b \in Optional("indexeddb", {EmptyDict} \cup {[x \in {"db1"} |-> db] : db \in DatabaseResults}),
        c \in Optional("caches", {[total_cached_size |-> 0]}),
        d \in Optional("code_graph", CodeGraphResults)}

InitReport ==
    /\ analysis \in Analyses
    /\ clock = 0
    /\ report_file = <<>>
    /\ generated = <<>>

\* time passes between two invocations
Tick ==
    /\ clock < MaxClock
    /\ clock' = clock + 1
    /\ UNCHANGED <<analysis, report_file, generated>>

\* ReportGenerator.generate(analysis, output); generated records, for every
\* invocation, whether it raised, its time, and what the output file holds
\* after it
Generate ==
    LET text == ReportText(analysis, clock)
        written == IF text.raised THEN report_file ELSE WriteFile(report_file, text)
    IN /\ Len(generated) < MaxCalls
       /\ report_file' = written
       /\ generated' = Append(generated, [raised |-> text.raised, at |-> clock, file |-> written])
       /\ UNCHANGED <<analysis, clock>>

----------------------------------------------------------------------------
(* Specification of the key-value analysis: one store in, one result out *)

IdleStorage == storage = EmptyDict /\ storage_result = NoResult

IdleIDB == records = <<>> /\ idb_result = NoResult

IdleCG ==
    /\ cg_data = <<>>
    /\ files = EmptyDict
    /\ imports = EmptyDict
    /\ cg_result = NoResult
    /\ cg_seen = <<>>

IdleText ==
    /\ code = <<>>
    /\ code_imports = NoResult
    /\ name_url = <<>>
    /\ component = NoResult

IdleCache == cache_data = <<>> /\ cache_result = NoResult

IdleReport ==
    /\ analysis = EmptyDict
    /\ clock = 0
    /\ report_file = <<>>
    /\ generated = <<>>

NextStorage ==
    AnalyzeStorage /\ UNCHANGED <<idb_vars, cg_vars, text_vars, cache_vars, report_vars>>

\* the other analyzers stay idle
StorageInit == InitStorage /\ IdleIDB /\ IdleCG /\ IdleText /\ IdleCache /\ IdleReport

SpecStorage == StorageInit /\ [][NextStorage]_vars

----------------------------------------------------------------------------
(* Claims about StorageAnalyzer *)

\* size an entry contributes to the total: its size field, 0 without one
EntrySize(v) == IF v.isdict /\ v.hasSize THEN v.size ELSE 0

RECURSIVE SumOfEntrySizes(_, _)
SumOfEntrySizes(st, keys) ==
    IF keys = {} THEN 0
    ELSE LET k == CHOOSE x \in keys : TRUE
         IN EntrySize(st[k]) + SumOfEntrySizes(st, keys \ {k})

RECURSIVE SumOfCounts(_, _)
SumOfCounts(d, dom) ==
    IF dom = {} THEN 0
    ELSE LET k == CHOOSE x \in dom : TRUE
         IN d[k] + SumOfCounts(d, dom \ {k})

\* C1: total_size_bytes is the sum of the entries' sizes, avg_value_size *
\* total_keys = total_size_bytes when total_keys > 0, and the empty store
\* yields 0 everywhere.
C1_SizeTotals ==
    storage_result.returned =>
        /\ storage_result.total_size_bytes = SumOfEntrySizes(storage, DOMAIN storage)
        /\ storage_result.total_keys > 0 =>
             storage_result.avg_value_size.num * storage_result.total_keys
               = storage_result.total_size_bytes * storage_result.avg_value_size.den
        /\ storage = EmptyDict =>
             /\ storage_result.total_keys = 0
             /\ storage_result.total_size_bytes = 0
             /\ storage_result.avg_value_size.num = 0
             /\ storage_result.avg_value_size.den # 0
             /\ storage_result.value_sizes_bytes = [min |-> 0, max |-> 0, median |-> 0]

\* C2: every key is counted in exactly one bucket of key_patterns, and the
\* bucket counts add up to total_keys.
C2_BucketsPartitionKeys ==
    storage_result.returned =>
        LET kp == storage_result.key_patterns IN
        /\ \A k \in DOMAIN storage : ExtractKeyPrefix(k) \in DOMAIN kp
        /\ \A p \in DOMAIN kp :
             kp[p] = Cardinality({k \in DOMAIN storage : ExtractKeyPrefix(k) = p})
        /\ SumOfCounts(kp, DOMAIN kp) = storage_result.total_keys

C2_Witness ==
    /\ storage_result.returned
    /\ \E k1, k2 \in DOMAIN storage :
         /\ k1 # k2
         /\ MatchPrefix(k1) > 0
         /\ MatchPrefix(k2) = 0
    /\ storage_result.total_keys = 2

\* lengths of the prefixes of key that consist of word characters and are
\* followed by an underscore
PrefixLengths(key) ==
    {n \in 1..(Len(key) - 1) :
        /\ key[n + 1] = "_"
        /\ \A j \in 1..n : key[j] \in WordChars}

ExpectedBucket(key) ==
    IF PrefixLengths(key) = {} THEN key
    ELSE LET n == CHOOSE x \in PrefixLengths(key) : \A y \in PrefixLengths(key) : x <= y
         IN SubSeq(key, 1, n) \o <<"_", "*">>

user_star == <<"u","s","e","r","_","*">>

\* C3: a key with an underscore after a non-empty run of word characters is
\* counted under '<shortest such prefix>_*', any other key under itself;
\* user_1, user_2, theme give {user_*: 2, theme: 1}.
C3_ShortestPrefixBucket ==
    storage_result.returned =>
        LET kp == storage_result.key_patterns IN
        /\ DOMAIN kp = {ExpectedBucket(k) : k \in DOMAIN storage}
        /\ \A p \in DOMAIN kp :
             kp[p] = Cardinality({k \in DOMAIN storage : ExpectedBucket(k) = p})
        /\ DOMAIN storage = {user_1, user_2, theme} =>
             /\ DOMAIN kp = {user_star, theme}
             /\ kp[user_star] = 2
             /\ kp[theme] = 1

C3_Witness ==
    /\ storage_result.returned
    /\ DOMAIN storage = {user_1, user_2, theme}
    /\ storage_result.key_patterns[user_star] = 2

\* C4: every bucket label that the extraction produces is mapped to itself
\* by the extraction.
C4_PatternIdempotent ==
    storage_result.returned =>
        /\ \A p \in DOMAIN storage_result.key_patterns : ExtractKeyPrefix(p) = p
        /\ \A k \in DOMAIN storage :
             ExtractKeyPrefix(ExtractKeyPrefix(k)) = ExtractKeyPrefix(k)

C4_Witness ==
    /\ storage_result.returned
    /\ \E k \in DOMAIN storage : ExtractKeyPrefix(k) # k
    /\ \E k \in DOMAIN storage : ExtractKeyPrefix(k) = k

\* C5 as stated: the median is the element at 0-based index n//2 of the
\* sorted sizes, which for even n is the lower of the two middle elements.
C5_MedianLowerMiddle ==
    (storage_result.returned /\ Sizes(storage) # <<>>) =>
        LET sorted == Sorted(Sizes(storage))
            n == Len(sorted)
        IN /\ storage_result.value_sizes_bytes.median = sorted[(n \div 2) + 1]
           /\ n % 2 = 0 => storage_result.value_sizes_bytes.median = sorted[n \div 2]

\* C5 amended: the median is the element at 0-based index n//2 of the
\* sorted sizes: at most n//2 sizes are smaller than it and at least
\* n//2 + 1 sizes are not larger, so for even n it is the upper of the two
\* middle elements.
C5_MedianUpperMiddle ==
    (storage_result.returned /\ Sizes(storage) # <<>>) =>
        LET s == Sizes(storage)
            n == Len(s)
            m == storage_result.value_sizes_bytes.median
        IN /\ \E i \in 1..n : s[i] = m
           /\ Cardinality({i \in 1..n : s[i] < m}) <= n \div 2
           /\ Cardinality({i \in 1..n : s[i] <= m}) >= (n \div 2) + 1

C5_Witness ==
    /\ storage_result.returned
    /\ Len(Sizes(storage)) = 2
    /\ MinSeq(Sizes(storage)) < MaxSeq(Sizes(storage))
    /\ storage_result.value_sizes_bytes.median = MaxSeq(Sizes(storage))

----------------------------------------------------------------------------
(* Specification of the object-store analysis *)

NextIDB ==
    AnalyzeStore /\ UNCHANGED <<storage_vars, cg_vars, text_vars, cache_vars, report_vars>>

\* the other analyzers stay idle
IDBInit == InitIDB /\ IdleStorage /\ IdleCG /\ IdleText /\ IdleCache /\ IdleReport

SpecIDB == IDBInit /\ [][NextIDB]_vars

----------------------------------------------------------------------------
(* Claims about IndexedDBAnalyzer *)

\* number of object-shaped records that carry the field
CarryingCount(recs, f) ==
    Cardinality({i \in 1..Len(recs) : recs[i].isdict /\ HasKey(recs[i], f)})

\* C6: when the first record is an object, a field that every object-shaped
\* record has is reported with presence "100%", whatever the number of
\* primitive records in the store.
C6_FullPresence ==
    (idb_result.returned /\ records # <<>> /\ records[1].isdict) =>
        \A f \in Fields :
            (\A i \in 1..Len(records) : records[i].isdict => HasKey(records[i], f))
                => /\ f \in DOMAIN idb_result.schema
                   /\ idb_result.schema[f].presence = "100%"

C6_Witness ==
    /\ idb_result.returned
    /\ Len(records) = 2
    /\ records[1].isdict
    /\ ~ records[2].isdict
    /\ HasKey(records[1], "f")
    /\ idb_result.schema["f"].presence = "100%"

\* C7: every reported cardinality entry has 1 <= unique_values <= k and a
\* ratio in [1/k, 1], k >= 1 being the number of records carrying the field
\* (all records for the _primitive entry).
C7_RatioRange ==
    idb_result.returned =>
        \A f \in DOMAIN idb_result.cardinality :
            LET e == idb_result.cardinality[f]
                k == IF f = "_primitive" THEN Len(records) ELSE CarryingCount(records, f)
            IN /\ k >= 1
               /\ 1 <= e.unique_values /\ e.unique_values <= k
               /\ e.cardinality_ratio.den > 0
               /\ e.cardinality_ratio.num * k >= e.cardinality_ratio.den
               /\ e.cardinality_ratio.num <= e.cardinality_ratio.den

C7_Witness ==
    /\ idb_result.returned
    /\ Len(records) = 2
    /\ records[1].isdict
    /\ "f" \in DOMAIN idb_result.cardinality
    /\ CarryingCount(records, "f") = 1
    /\ idb_result.cardinality["f"].cardinality_ratio = [num |-> 1, den |-> 1]

\* C8: when the first record is a primitive, schema and cardinality each
\* consist of the single entry _primitive, and its unique_values is the
\* number of distinct string renderings of all records, objects included.
C8_PrimitiveStore ==
    (idb_result.returned /\ records # <<>> /\ ~ records[1].isdict) =>
        /\ DOMAIN idb_result.schema = {"_primitive"}
        /\ DOMAIN idb_result.cardinality = {"_primitive"}
        /\ idb_result.cardinality["_primitive"].unique_values =
             Cardinality({i \in 1..Len(records) :
                            \A j \in 1..(i - 1) :
                                StrOfRecord(records[j]) # StrOfRecord(records[i])})

C8_Witness ==
    /\ idb_result.returned
    /\ Len(records) = 2
    /\ ~ records[1].isdict
    /\ records[2].isdict
    /\ idb_result.cardinality["_primitive"].unique_values = 2

----------------------------------------------------------------------------
(* Specification of the dependency-graph extraction *)

NextCG ==
    AnalyzeCodeGraph
    /\ UNCHANGED <<storage_vars, idb_vars, text_vars, cache_vars, report_vars>>

\* the other analyzers stay idle
CGInit == InitCG /\ IdleStorage /\ IdleIDB /\ IdleText /\ IdleCache /\ IdleReport

SpecCG == CGInit /\ [][NextCG]_vars

----------------------------------------------------------------------------
(* Claims about CodeGraphAnalyzer *)

\* all entries of the document, in the order analyze() visits them
RECURSIVE Flatten(_)
Flatten(caches) == IF caches = <<>> THEN <<>> ELSE Head(caches) \o Flatten(Tail(caches))

\* positions of the script entries with a non-empty body that derive id
ScriptPositions(entries, id) ==
    {i \in 1..Len(entries) :
        /\ IsJavascript(entries[i])
        /\ Len(entries[i].body) > 0
        /\ ComponentName(entries[i].url) = id}

\* the literals of all matches in a body
LiteralsOf(body) == {t.lit : t \in {body[i] : i \in 1..Len(body)} \ {[kind |-> "text", lit |-> ""]}}

\* C9: when several script entries derive the same identifier, components[id]
\* and graph[id] hold the url, size and imports of the last of them only.
C9_LastEntryWins ==
    cg_result.returned =>
        LET entries == Flatten(cg_data) IN
        \A u \in Urls :
            LET id == ComponentName(u)
                pos == ScriptPositions(entries, id)
            IN pos # {} =>
                 LET last == entries[CHOOSE i \in pos : \A j \in pos : j <= i]
                 IN /\ id \in DOMAIN cg_result.components
                    /\ cg_result.components[id].url = last.url
                    /\ cg_result.components[id].size =
                         (IF last.hasBodySize THEN last.bodySize ELSE 0)
                    /\ cg_result.components[id].imports = LiteralsOf(last.body)
                    /\ cg_result.graph[id] = LiteralsOf(last.body)

C9_Witness ==
    /\ cg_result.returned
    /\ LET entries == Flatten(cg_data)
       IN /\ Len(entries) = 2
          /\ ScriptPositions(entries, <<"a">>) = {1, 2}
          /\ entries[1].url # entries[2].url
          /\ LiteralsOf(entries[1].body) # LiteralsOf(entries[2].body)
          /\ cg_result.components[<<"a">>].url = entries[2].url

\* C10: total_dependencies is the sum of the sizes of the import sets of the
\* graph, a shared import counted once per component, and total_components
\* is the number of keys of components.
C10_StatsTotals ==
    cg_result.returned =>
        /\ cg_result.stats.total_dependencies =
             Cardinality({p \in (DOMAIN cg_result.graph) \X Literals :
                            p[2] \in cg_result.graph[p[1]]})
        /\ cg_result.stats.total_components = Cardinality(DOMAIN cg_result.components)

C10_Witness ==
    /\ cg_result.returned
    /\ DOMAIN cg_result.graph = {<<"a">>, <<"b">>}
    /\ cg_result.graph[<<"a">>] = {"x"}
    /\ cg_result.graph[<<"b">>] = {"x"}
    /\ cg_result.stats.total_dependencies = 2

----------------------------------------------------------------------------
(* Specification of the import extraction on script text *)

NextImports ==
    ScanImports /\ UNCHANGED <<storage_vars, idb_vars, cg_vars, cache_vars, report_vars>>

ImportsInit ==
    InitImports /\ IdleStorage /\ IdleIDB /\ IdleCG /\ IdleCache /\ IdleReport

SpecImports == ImportsInit /\ [][NextImports]_vars

----------------------------------------------------------------------------
(* Claims about _extract_imports *)

\* the semicolon-terminated pieces of a text, in order
RECURSIVE Pieces(_, _)
Pieces(text, current) ==
    IF text = <<>> THEN (IF current = <<>> THEN <<>> ELSE <<current>>)
    ELSE IF Head(text) = ";" THEN <<current>> \o Pieces(Tail(text), <<>>)
    ELSE Pieces(Tail(text), current \o <<Head(text)>>)

\* the literal a statement imports; the statement without a blank after
\* from imports nothing
ImportedBy(stmt) ==
    IF stmt \in {StmtImportA, StmtRequireA} THEN {<<"a">>}
    ELSE IF stmt \in {StmtFromB, StmtImportBMixed} THEN {<<"b">>}
    ELSE {}

ScenarioText ==
    <<"import(", "\"", "a", "\"", ")", ";",
      "import(", "\"", "a", "\"", ")", ";",
      "from", " ", "'", "b", "'", ";">>

\* C11: the extraction yields the set of the literals of all matches: a
\* literal matched several times is one entry, whatever the order of the
\* statements; import("a"); import("a"); from 'b' yields {a, b}, size 2.
C11_ImportsAreASet ==
    code_imports.returned =>
        LET pieces == Pieces(code, <<>>)
            stmts == {pieces[i] : i \in 1..Len(pieces)}
        IN /\ stmts \subseteq Statements =>
                /\ code_imports.imports = UNION {ImportedBy(st) : st \in stmts}
                /\ code_imports.size = Cardinality(UNION {ImportedBy(st) : st \in stmts})
           /\ code = ScenarioText =>
                /\ code_imports.imports = {<<"a">>, <<"b">>}
                /\ code_imports.size = 2
           /\ \A lit \in code_imports.imports :
                /\ lit # <<>>
                /\ \A k \in 1..Len(lit) : lit[k] \notin Quotes
                /\ \E i, j \in 1..Len(code) :
                     /\ i < j
                     /\ code[i] \in Quotes
                     /\ code[j] \in Quotes
                     /\ SubSeq(code, i + 1, j - 1) = lit

C11_Witness ==
    /\ code_imports.returned
    /\ code = ScenarioText
    /\ code_imports.size = 2

----------------------------------------------------------------------------
(* Specification of the component naming *)

NextName ==
    DeriveName /\ UNCHANGED <<storage_vars, idb_vars, cg_vars, cache_vars, report_vars>>

NameInit ==
    InitName /\ IdleStorage /\ IdleIDB /\ IdleCG /\ IdleCache /\ IdleReport

SpecName == NameInit /\ [][NextName]_vars

----------------------------------------------------------------------------
(* Claims about _get_component_name *)

\* the URL without its query string: everything before the first '?'
PathOf(u) ==
    LET marks == {i \in 1..Len(u) : u[i] = "?"}
    IN IF marks = {} THEN u
       ELSE SubSeq(u, 1, (CHOOSE i \in marks : \A j \in marks : i <= j) - 1)

\* the final segment of a path: everything after its last '/'
FinalSegment(path) ==
    LET slashes == {i \in 1..Len(path) : path[i] = "/"}
    IN IF slashes = {} THEN path
       ELSE SubSeq(path, (CHOOSE i \in slashes : \A j \in slashes : j <= i) + 1, Len(path))

\* the part of a segment before its first hyphen, the segment without one
HashStripped(segment) ==
    LET hyphens == {i \in 1..Len(segment) : segment[i] = "-"}
    IN IF hyphens = {} THEN segment
       ELSE SubSeq(segment, 1, (CHOOSE i \in hyphens : \A j \in hyphens : i <= j) - 1)

\* C12: the identifier is the final path segment of the URL, without the
\* query string, cut before its first hyphen; also when the query string
\* contains '/' or '-'.
C12_NameOfFinalPathSegment ==
    component.returned =>
        component.name = HashStripped(FinalSegment(PathOf(name_url)))

----------------------------------------------------------------------------
(* Specification of the response-cache analysis *)

NextCache ==
    AnalyzeCaches /\ UNCHANGED <<storage_vars, idb_vars, cg_vars, text_vars, report_vars>>

CacheInit ==
    InitCache /\ IdleStorage /\ IdleIDB /\ IdleCG /\ IdleText /\ IdleReport

SpecCache == CacheInit /\ [][NextCache]_vars

----------------------------------------------------------------------------
(* Claims about CacheAnalyzer *)

\* C13: every entry of every cache is counted once: each bucket holds the
\* number of entries with that content type, entries without one are under
\* "unknown", the bucket counts add up to the number of entries, and
\* total_cached_size is the sum of the bodySize fields, 0 for a missing one.
C13_EveryEntryCountedOnce ==
    cache_result.returned =>
        LET entries == Flatten(cache_data)
            n == Len(entries)
            ct == cache_result.content_types
            labelled(label) ==
                {i \in 1..n :
                    \/ entries[i].hasContentType /\ entries[i].contentType = label
                    \/ ~ entries[i].hasContentType /\ label = "unknown"}
        IN /\ SumOfCounts(ct, DOMAIN ct) = n
           /\ \A label \in DOMAIN ct : ct[label] = Cardinality(labelled(label))
           /\ \A i \in 1..n : \E label \in DOMAIN ct : i \in labelled(label)
           /\ cache_result.total_cached_size =
                SumSeq([i \in 1..n |->
                          IF entries[i].hasBodySize THEN entries[i].bodySize ELSE 0])

C13_Witness ==
    /\ cache_result.returned
    /\ Len(cache_data) = 2
    /\ Len(Flatten(cache_data)) = 3
    /\ \E i \in 1..3 : ~ Flatten(cache_data)[i].hasContentType
    /\ \E i \in 1..3 : ~ Flatten(cache_data)[i].hasBodySize
    /\ cache_result.content_types["unknown"] = 2
    /\ cache_result.total_cached_size = 2

----------------------------------------------------------------------------
(* Specification of the report generation *)

NextReport ==
    \/ Generate /\ UNCHANGED <<storage_vars, idb_vars, cg_vars, text_vars, cache_vars>>
    \/ Tick /\ UNCHANGED <<storage_vars, idb_vars, cg_vars, text_vars, cache_vars>>

ReportInit ==
    InitReport /\ IdleStorage /\ IdleIDB /\ IdleCG /\ IdleText /\ IdleCache

SpecReport == ReportInit /\ [][NextReport]_vars

----------------------------------------------------------------------------
(* C14: generate never raises because a section (storage, indexeddb,       *)
(* caches, code_graph) or an optional key inside a present section (a      *)
(* store's record_count, schema or cardinality) is missing; the missing    *)
(* part is rendered as zero or empty.                                      *)

StoresOf(db) == Get(Get(analysis, "indexeddb", EmptyDict)[db], "stores", EmptyDict)

MissingRenderedEmpty(t) ==
    /\ "storage" \notin DOMAIN analysis =>
          /\ t.local_keys = 0 /\ t.local_mb = 0
          /\ t.session_keys = 0 /\ t.session_mb = 0
          /\ t.key_patterns = EmptyDict /\ t.data_types = EmptyDict
          /\ t.min = 0 /\ t.max_kb = 0 /\ t.median_kb = 0 /\ t.avg_kb = 0
    /\ "indexeddb" \notin DOMAIN analysis =>
          t.databases = 0 /\ t.total_records = 0 /\ t.stores = EmptyDict
    /\ "code_graph" \notin DOMAIN analysis => t.code = EmptyDict
    /\ \A db \in DOMAIN t.stores : \A st \in DOMAIN t.stores[db].stores :
          LET info == StoresOf(db)[st]
              lines == t.stores[db].stores[st]
          IN /\ "record_count" \notin DOMAIN info => lines.records = 0
             /\ "schema" \notin DOMAIN info => lines.schema = EmptyDict
             /\ "cardinality" \notin DOMAIN info => lines.cardinality = EmptyDict

C14_MissingSectionsNeverRaise ==
    \A i \in 1..Len(generated) :
        /\ ~ generated[i].raised
        /\ Len(generated[i].file) = 1
        /\ MissingRenderedEmpty(generated[i].file[1])

C14_Witness ==
    /\ Len(generated) > 0
    /\ DOMAIN analysis = {"indexeddb"}
    /\ \E db \in DOMAIN analysis["indexeddb"] : \E st \in DOMAIN StoresOf(db) :
          StoresOf(db)[st] = EmptyDict
    /\ report_file # <<>>

----------------------------------------------------------------------------
(* C15: generate is deterministic: two invocations given equal analyzer    *)
(* outputs produce identical report text, whatever the time of the         *)
(* invocation.                                                             *)

C15_SameReportEveryTime ==
    \A i, j \in 1..Len(generated) : generated[i].file = generated[j].file

WithoutTimestamps(t) == [t EXCEPT !.generated = "", !.report_generated = ""]

(* C15, amended: two invocations given equal analyzer outputs produce      *)
(* report text that is identical except for the two timestamp lines, which *)
(* carry the time of the invocation; invocations at the same time produce  *)
(* identical text.                                                         *)
C15_SameReportUpToTimestamps ==
    \A i, j \in 1..Len(generated) :
        /\ generated[i].at = generated[j].at => generated[i].file = generated[j].file
        /\ WithoutTimestamps(generated[i].file[1]) = WithoutTimestamps(generated[j].file[1])

C15_Witness ==
    /\ Len(generated) = 2
    /\ generated[1].at # generated[2].at
    /\ generated[1].file # generated[2].file
    /\ {"storage", "indexeddb", "code_graph"} \subseteq DOMAIN analysis

----------------------------------------------------------------------------
(* C16: the type tag of a field of the first record is the tag of the      *)
(* kind of its value: null, boolean, number for an integer or a fractional *)
(* number, string, array, object; a boolean is never tagged number.        *)

\* the kind of a decoded JSON value
TagOfKind(value) ==
    IF value.t = "NoneType" THEN "null"
    ELSE IF value.t = "bool" THEN "boolean"
    ELSE IF value.t \in {"int", "float"} THEN "number"
    ELSE IF value.t = "str" THEN "string"
    ELSE IF value.t = "list" THEN "array"
    ELSE "object"

C16_TagOfKind ==
    (idb_result.returned /\ records # <<>> /\ records[1].isdict) =>
        \A key \in KeysOf(records[1]) :
            idb_result.schema[key].type = TagOfKind(GetKey(records[1], key))

----------------------------------------------------------------------------
(* C18: data_types and cardinality agree on which entries have a parsed    *)
(* value: the number of cardinality entries plus the number of entries     *)
(* counted as 'string' for lack of a parsed value is total_keys, for every *)
(* store, including entries whose parsed field is present but null.        *)

C18_TypesAndCardinalityAgree ==
    storage_result.returned =>
        Cardinality(DOMAIN storage_result.cardinality)
          + Get(storage_result.data_types, "string", 0)
        = storage_result.total_keys

----------------------------------------------------------------------------
(* Specification of an analyzer instance whose analyze() is called again   *)
(* after the document has changed *)

NextCGReuse ==
    \/ AnalyzeCodeGraph
         /\ UNCHANGED <<storage_vars, idb_vars, text_vars, cache_vars, report_vars>>
    \/ DropEntry
         /\ UNCHANGED <<storage_vars, idb_vars, text_vars, cache_vars, report_vars>>

CGReuseInit ==
    InitCGReuse /\ IdleStorage /\ IdleIDB /\ IdleText /\ IdleCache /\ IdleReport

SpecCGReuse == CGReuseInit /\ [][NextCGReuse]_vars

\* the result of analyze() on an instance whose accumulators are empty
ResultOfDocument(caches) ==
    LET acc == ProcessCaches([files |-> EmptyDict, imports |-> EmptyDict], caches)
    IN [returned |-> TRUE,
        components |-> acc.files,
        graph |-> acc.imports,
        stats |-> [total_components |-> Cardinality(DOMAIN acc.files),
                   total_dependencies |-> TotalDependencies(acc.imports)]]

(* C17: no accumulator state is carried from one analyze() call into a     *)
(* later one on the same instance: the result of every call holds exactly  *)
(* the components and import sets derived from the document as that call   *)
(* processes it, so nothing of an earlier call survives that the current   *)
(* document would not produce.                                             *)
C17_NoCarriedState ==
    cg_result.returned => cg_result = ResultOfDocument(cg_seen)

====
